---- MODULE Spec2Model ----
(***************************************************************************)
(* Model of src/map.rs of bevy_tiled: the coordinate projections of Map    *)
(* and the system process_loaded_tile_maps, which synchronises loaded map  *)
(* assets with spawned chunk entities once per tick.                       *)
(***************************************************************************)
EXTENDS Integers, Sequences, FiniteSets, Bags, TLC

(***************************************************************************)
(* f32 arithmetic.  A value is a record: kind "fin" with sign s and the    *)
(* exact value m * 2^e (m odd, or m = 0 and e = 0), kind "inf" with sign   *)
(* s, or kind "nan".  Every operation computes the exact result and rounds *)
(* it to a 24-bit significand, ties to even, as IEEE-754 binary32 does.    *)
(***************************************************************************)
MantBits == 24

MinExp == -149

MaxExpBits == 128

Pow2(k) == 2 ^ k

RECURSIVE BitLen(_)
BitLen(n) == IF n = 0 THEN 0 ELSE 1 + BitLen(n \div 2)

FNaN == [k |-> "nan", s |-> 0, m |-> 0, e |-> 0]

FInf(s) == [k |-> "inf", s |-> s, m |-> 0, e |-> 0]

FZero(s) == [k |-> "fin", s |-> s, m |-> 0, e |-> 0]

RECURSIVE Canon(_, _, _)
Canon(s, m, e) ==
    IF m = 0 THEN FZero(s)
    ELSE IF m % 2 = 0 THEN Canon(s, m \div 2, e + 1)
    ELSE [k |-> "fin", s |-> s, m |-> m, e |-> e]

\* the f32 nearest to (-1)^s * (m + d) * 2^e, where 0 < d < 1 when sticky
RoundF32(s, m, e, sticky) ==
    IF m = 0 THEN FZero(s)
    ELSE LET nb == BitLen(m)
             q == IF e + nb - MantBits < MinExp THEN MinExp ELSE e + nb - MantBits
         IN  IF q <= e
             THEN IF nb + e > MaxExpBits THEN FInf(s) ELSE Canon(s, m, e)
             ELSE LET sh == q - e
                  IN  IF sh > nb + 1 THEN FZero(s)
                      ELSE LET t == m \div Pow2(sh)
                               r == m % Pow2(sh)
                               half == Pow2(sh - 1)
                               up == \/ r > half
                                     \/ r = half /\ sticky
                                     \/ r = half /\ ~sticky /\ t % 2 = 1
                               t2 == IF up THEN t + 1 ELSE t
                           IN  IF BitLen(t2) + q > MaxExpBits
                               THEN FInf(s)
                               ELSE Canon(s, t2, q)

FInt(n) == IF n < 0 THEN RoundF32(1, -n, 0, FALSE) ELSE RoundF32(0, n, 0, FALSE)

FNeg(a) == IF a.k = "nan" THEN a ELSE [a EXCEPT !.s = 1 - a.s]

FMul(a, b) ==
    LET s == (a.s + b.s) % 2
    IN  IF a.k = "nan" \/ b.k = "nan" THEN FNaN
        ELSE IF a.k = "inf" \/ b.k = "inf"
        THEN IF (a.k = "fin" /\ a.m = 0) \/ (b.k = "fin" /\ b.m = 0)
             THEN FNaN ELSE FInf(s)
        ELSE RoundF32(s, a.m * b.m, a.e + b.e, FALSE)

FDiv(a, b) ==
    LET s == (a.s + b.s) % 2
    IN  IF a.k = "nan" \/ b.k = "nan" THEN FNaN
        ELSE IF a.k = "inf"
        THEN IF b.k = "inf" THEN FNaN ELSE FInf(s)
        ELSE IF b.k = "inf" THEN FZero(s)
        ELSE IF b.m = 0
        THEN IF a.m = 0 THEN FNaN ELSE FInf(s)
        ELSE IF a.m = 0 THEN FZero(s)
        ELSE LET want == MantBits + 1 + BitLen(b.m)
                 sh == IF BitLen(a.m) >= want THEN 0 ELSE want - BitLen(a.m)
                 n == a.m * Pow2(sh)
             IN  RoundF32(s, n \div b.m, a.e - sh - b.e, n % b.m # 0)

\* m * 2^e rescaled to the exponent ew, dropping the bits below it
Scaled(m, e, ew) ==
    IF e >= ew THEN m * Pow2(e - ew)
    ELSE IF ew - e > 30 THEN 0
    ELSE m \div Pow2(ew - e)

Dropped(m, e, ew) ==
    IF e >= ew THEN FALSE
    ELSE IF ew - e > 30 THEN m # 0
    ELSE m % Pow2(ew - e) # 0

\* both operands are brought to four bits below the larger one's 24 bits;
\* what the smaller one loses there is remembered as sticky
FAdd(a, b) ==
    IF a.k = "nan" \/ b.k = "nan" THEN FNaN
    ELSE IF a.k = "inf"
    THEN IF b.k = "inf" /\ b.s # a.s THEN FNaN ELSE a
    ELSE IF b.k = "inf" THEN b
    ELSE IF a.m = 0 /\ b.m = 0
    THEN FZero(IF a.s = 1 /\ b.s = 1 THEN 1 ELSE 0)
    ELSE IF a.m = 0 THEN b
    ELSE IF b.m = 0 THEN a
    ELSE LET topa == a.e + BitLen(a.m)
             topb == b.e + BitLen(b.m)
             ew == (IF topa > topb THEN topa ELSE topb) - MantBits - 4
             x == (IF a.s = 1 THEN -1 ELSE 1) * Scaled(a.m, a.e, ew)
             y == (IF b.s = 1 THEN -1 ELSE 1) * Scaled(b.m, b.e, ew)
             sticky == Dropped(a.m, a.e, ew) \/ Dropped(b.m, b.e, ew)
             sum == x + y
             neg == sum < 0 \/ (sum = 0 /\ sticky /\
                                  IF Dropped(a.m, a.e, ew) THEN a.s = 1 ELSE b.s = 1)
             mag == IF sum < 0 THEN -sum ELSE sum
             \* a dropped part of the opposite sign takes one unit back
             less == sticky /\ sum # 0 /\
                       (IF Dropped(a.m, a.e, ew) THEN a.s ELSE b.s) # (IF neg THEN 1 ELSE 0)
         IN  IF sum = 0 /\ ~sticky THEN FZero(0)
             ELSE RoundF32(IF neg THEN 1 ELSE 0,
                           IF less THEN mag - 1 ELSE mag, ew, sticky)

FSub(a, b) == FAdd(a, FNeg(b))

\* f32::round: to the nearest integer, halfway cases away from zero
FRound(a) ==
    IF a.k # "fin" \/ a.e >= 0 THEN a
    ELSE IF -a.e > BitLen(a.m) + 1 THEN FZero(a.s)
    ELSE LET t == a.m \div Pow2(-a.e)
             r == a.m % Pow2(-a.e)
         IN  Canon(a.s, IF r >= Pow2(-a.e - 1) THEN t + 1 ELSE t, 0)

\* f32 ==: NaN differs from everything, the two zeros are equal
FEq(a, b) ==
    /\ a.k # "nan"
    /\ b.k # "nan"
    /\ \/ a = b
       \/ a.k = "fin" /\ b.k = "fin" /\ a.m = 0 /\ b.m = 0

Two == FInt(2)

Four == FInt(4)

Vec2(x, y) == <<x, y>>

Vec3(x, y, z) == <<x, y, z>>

Vec2Eq(p, q) == FEq(p[1], q[1]) /\ FEq(p[2], q[2])

(***************************************************************************)
(* impl Map: the projections.                                              *)
(***************************************************************************)
project_ortho(pos, tile_width, tile_height) ==
    LET x == FMul(tile_width, pos[1])
        y == FMul(tile_height, pos[2])
    IN  Vec2(x, FNeg(y))

\* as unproject_ortho, without the vertical flip
unproject_ortho_unflipped(pos, tile_width, tile_height) ==
    LET x == FDiv(pos[1], tile_width)
        y == FDiv(pos[2], tile_height)
    IN  Vec2(x, y)

unproject_ortho(pos, tile_width, tile_height) ==
    LET x == FDiv(pos[1], tile_width)
        y == FDiv(FNeg(pos[2]), tile_height)
    IN  Vec2(x, y)

project_iso(pos, tile_width, tile_height) ==
    LET x == FDiv(FMul(FSub(pos[1], pos[2]), tile_width), Two)
        y == FDiv(FMul(FAdd(pos[1], pos[2]), tile_height), Two)
    IN  Vec2(x, FNeg(y))

\* as unproject_iso, with the operands of y's difference exchanged
unproject_iso_exchanged(pos, tile_width, tile_height) ==
    LET half_width == FDiv(tile_width, Two)
        half_height == FDiv(tile_height, Two)
        x == FDiv(FAdd(FDiv(pos[1], half_width),
                       FDiv(FNeg(pos[2]), half_height)), Two)
        y == FDiv(FSub(FDiv(pos[1], half_width),
                       FDiv(FNeg(pos[2]), half_height)), Two)
    IN  Vec2(FRound(x), FRound(y))

unproject_iso(pos, tile_width, tile_height) ==
    LET half_width == FDiv(tile_width, Two)
        half_height == FDiv(tile_height, Two)
        x == FDiv(FAdd(FDiv(pos[1], half_width),
                       FDiv(FNeg(pos[2]), half_height)), Two)
        y == FDiv(FSub(FDiv(FNeg(pos[2]), half_height),
                       FDiv(pos[1], half_width)), Two)
    IN  Vec2(FRound(x), FRound(y))

(***************************************************************************)
(* Bounds of the model.                                                    *)
(***************************************************************************)
MaxInstances == 2

MaxLoads == 2

MaxEvents == 3

Handles == {1, 2}

(***************************************************************************)
(* Map assets.  The loader is not part of map.rs; the maps below are the   *)
(* values it hands to the asset store.  Every geometry batch carries the   *)
(* layer index and the first_gid of the tileset it was built for, and      *)
(* every TilesetLayer's tileset_guid is the first_gid of one of the map's  *)
(* tilesets.  A geometry is named by the load that built it.               *)
(***************************************************************************)
NoMap == [none |-> TRUE]

Tileset(first_gid, images) == [first_gid |-> first_gid, images |-> images]

TilesetLayer(tileset_guid) == [tileset_guid |-> tileset_guid]

Layer(tileset_layers) == [tileset_layers |-> tileset_layers]

Batch(layer_id, tileset_guid, mesh) ==
    [layer_id |-> layer_id, tileset_guid |-> tileset_guid, mesh |-> mesh]

TiledMap(orientation, width, height, tile_width, tile_height, tilesets) ==
    [orientation |-> orientation, width |-> width, height |-> height,
     tile_width |-> tile_width, tile_height |-> tile_height,
     tilesets |-> tilesets]

MapKinds == {"single", "double", "untextured", "hexagonal"}

LoadedMap(kind, n) ==
    CASE kind = "single" ->
           [map |-> TiledMap("Orthogonal", 4, 6, 16, 16,
                             <<Tileset(7, <<"tiles.png">>)>>),
            meshes |-> <<Batch(0, 7, <<n, 1>>), Batch(0, 7, <<n, 2>>)>>,
            layers |-> <<Layer(<<TilesetLayer(7)>>)>>,
            image_folder |-> "a"]
      [] kind = "double" ->
           [map |-> TiledMap("Isometric", 3, 5, 32, 16,
                             <<Tileset(1, <<"ground.png">>),
                               Tileset(7, <<"tiles.png">>)>>),
            meshes |-> <<Batch(1, 7, <<n, 1>>), Batch(0, 1, <<n, 2>>)>>,
            layers |-> <<Layer(<<TilesetLayer(1), TilesetLayer(7)>>),
                         Layer(<<TilesetLayer(7)>>)>>,
            image_folder |-> "b"]
      [] kind = "untextured" ->
           [map |-> TiledMap("Orthogonal", 2, 2, 16, 16,
                             <<Tileset(1, <<"missing.png">>)>>),
            meshes |-> <<Batch(0, 1, <<n, 1>>)>>,
            layers |-> <<Layer(<<TilesetLayer(1)>>)>>,
            image_folder |-> "a"]
      [] kind = "hexagonal" ->
           [map |-> TiledMap("Hexagonal", 2, 2, 16, 16,
                             <<Tileset(1, <<"ground.png">>)>>),
            meshes |-> <<Batch(0, 1, <<n, 1>>)>>,
            layers |-> <<Layer(<<TilesetLayer(1)>>)>>,
            image_folder |-> "b"]

\* the texture paths the asset server can resolve
Loadable == {"a/tiles.png", "b/tiles.png", "b/ground.png"}

TexturePath(image_folder, source) ==
    CASE image_folder = "a" /\ source = "tiles.png" -> "a/tiles.png"
      [] image_folder = "a" /\ source = "missing.png" -> "a/missing.png"
      [] image_folder = "b" /\ source = "tiles.png" -> "b/tiles.png"
      [] image_folder = "b" /\ source = "ground.png" -> "b/ground.png"

Gids == {1, 7}

Origins == {Vec3(FInt(10), FInt(-20), FInt(1))}

(***************************************************************************)
(* Map::center                                                             *)
(***************************************************************************)
center_supported(self) == self.map.orientation \in {"Orthogonal", "Isometric"}

\* as center, without the factor 4
center_unscaled(self, origin) ==
    LET tile_size == Vec2(FInt(self.map.tile_width), FInt(self.map.tile_height))
        map_center == Vec2(FDiv(FInt(self.map.width), Two),
                           FDiv(FInt(self.map.height), Two))
        c == IF self.map.orientation = "Orthogonal"
             THEN project_ortho(map_center, tile_size[1], tile_size[2])
             ELSE project_iso(map_center, tile_size[1], tile_size[2])
    IN  Vec3(FSub(origin[1], c[1]),
             FSub(origin[2], c[2]),
             origin[3])

center(self, origin) ==
    LET tile_size == Vec2(FInt(self.map.tile_width), FInt(self.map.tile_height))
        map_center == Vec2(FDiv(FInt(self.map.width), Two),
                           FDiv(FInt(self.map.height), Two))
        c == IF self.map.orientation = "Orthogonal"
             THEN project_ortho(map_center, tile_size[1], tile_size[2])
             ELSE project_iso(map_center, tile_size[1], tile_size[2])
    IN  Vec3(FSub(origin[1], FMul(c[1], Four)),
             FSub(origin[2], FMul(c[2], Four)),
             origin[3])

(***************************************************************************)
(* State.  maps, meshes and materials are the asset stores (a mesh or      *)
(* material handle is an index into its store), query holds the map        *)
(* instances the system's query matches, spawned the chunk entities.       *)
(* changed_maps, new_meshes and tick_spawned are the locals of the run of  *)
(* process_loaded_tile_maps that has just ended (tick_spawned: the spawn   *)
(* commands it issued); they are dropped when the application moves on.    *)
(* texture_loads and material_adds count the calls made for each           *)
(* (instance, tileset id) pair; panic records the panic that ended the     *)
(* program, if any.  arg, stage and result are the input, the progress and *)
(* the output of the pure computations when they are run on their own.     *)
(***************************************************************************)
VARIABLES maps, meshes, materials, query, spawned, loads,
          changed_maps, new_meshes, tick_spawned,
          texture_loads, material_adds, panic,
          arg, stage, result

world == <<maps, meshes, materials, query, spawned, loads,
           changed_maps, new_meshes, tick_spawned,
           texture_loads, material_adds, panic>>

pure == <<arg, stage, result>>

vars == <<world, pure>>

NoPanic == [reason |-> "none", handle |-> 0]

Panic(reason, handle) == [reason |-> reason, handle |-> handle]

Created(handle) == [type |-> "Created", handle |-> handle]

Modified(handle) == [type |-> "Modified", handle |-> handle]

Removed(handle) == [type |-> "Removed", handle |-> handle]

AssetEvent == {[type |-> t, handle |-> h] :
                 t \in {"Created", "Modified", "Removed"}, h \in Handles}

EventBatches == UNION {[1..n -> AssetEvent] : n \in 0..MaxEvents}

\* the orders in which a set can be iterated
Orders(S) == {o \in [1..Cardinality(S) -> S] :
                \A i, j \in DOMAIN o : i # j => o[i] # o[j]}

(***************************************************************************)
(* process_loaded_tile_maps, lines 189-204: the changed-map set.           *)
(***************************************************************************)
\* as ApplyEvent, with Removed ignored
ApplyEvent_IgnoreRemoved(set, event) ==
    CASE event.type = "Created" -> set \cup {event.handle}
      [] event.type = "Modified" -> set \cup {event.handle}
      [] event.type = "Removed" -> set

ApplyEvent(set, event) ==
    CASE event.type = "Created" -> set \cup {event.handle}
      [] event.type = "Modified" -> set \cup {event.handle}
      [] event.type = "Removed" -> set \ {event.handle}

RECURSIVE ChangedMaps(_, _, _)
ChangedMaps(set, evs, k) ==
    IF k > Len(evs) THEN set
    ELSE ChangedMaps(ApplyEvent(set, evs[k]), evs, k + 1)

(***************************************************************************)
(* Lines 210-219: extend the material cache of every instance with the     *)
(* tilesets of one changed map.  st is the state the system works on.      *)
(***************************************************************************)
\* a handle nobody holds yet: the n-th material made for instance i and gid
NewMaterialHandle(st, i, gid) == <<i, gid, st.material_adds[<<i, gid>>] + 1>>

\* as ResolveTileset, without the contains_key test
ResolveTileset_Unchecked(st, i, h, tileset) ==
    LET map == st.maps[h]
        gid == tileset.first_gid
    IN  IF st.panic # NoPanic THEN st
        ELSE IF Len(tileset.images) = 0
        THEN [st EXCEPT !.panic = Panic("no image", h)]
        ELSE LET texture_path == TexturePath(map.image_folder, tileset.images[1])
                 asked == [st EXCEPT !.texture_loads[<<i, gid>>] = @ + 1]
                 material == NewMaterialHandle(st, i, gid)
             IN  IF texture_path \notin Loadable
                 THEN [asked EXCEPT !.panic = Panic("texture", h)]
                 ELSE [asked EXCEPT
                         !.materials = (material :> texture_path) @@ @,
                         !.material_adds[<<i, gid>>] = @ + 1,
                         !.query[i].materials =
                             [g \in DOMAIN @ \cup {gid} |->
                                IF g = gid THEN material ELSE @[g]]]

ResolveTileset(st, i, h, tileset) ==
    LET map == st.maps[h]
        gid == tileset.first_gid
    IN  IF st.panic # NoPanic THEN st
        ELSE IF gid \in DOMAIN st.query[i].materials THEN st
        ELSE IF Len(tileset.images) = 0
        THEN [st EXCEPT !.panic = Panic("no image", h)]
        ELSE LET texture_path == TexturePath(map.image_folder, tileset.images[1])
                 asked == [st EXCEPT !.texture_loads[<<i, gid>>] = @ + 1]
                 material == NewMaterialHandle(st, i, gid)
             IN  IF texture_path \notin Loadable
                 THEN [asked EXCEPT !.panic = Panic("texture", h)]
                 ELSE [asked EXCEPT
                         !.materials = (material :> texture_path) @@ @,
                         !.material_adds[<<i, gid>>] = @ + 1,
                         !.query[i].materials = (gid :> material) @@ @]

RECURSIVE ResolveTilesets(_, _, _, _)
ResolveTilesets(st, i, h, k) ==
    IF k > Len(st.maps[h].map.tilesets) THEN st
    ELSE ResolveTilesets(ResolveTileset(st, i, h, st.maps[h].map.tilesets[k]),
                         i, h, k + 1)

\* as ResolveMaterials, for the first instance of the query only
ResolveMaterials_FirstInstance(st, query_order, h, j) ==
    IF j > Len(query_order) THEN st
    ELSE ResolveTilesets(st, query_order[j], h, 1)

RECURSIVE ResolveMaterials(_, _, _, _)
ResolveMaterials(st, query_order, h, j) ==
    IF j > Len(query_order) THEN st
    ELSE ResolveMaterials(ResolveTilesets(st, query_order[j], h, 1),
                          query_order, h, j + 1)

(***************************************************************************)
(* Lines 221-231: drain the pending batches of one changed map into the    *)
(* mesh store and index the handles under the map's handle.                *)
(***************************************************************************)
\* a handle nobody holds yet: the n-th mesh uploaded from this geometry
NewMeshHandle(st, geometry) ==
    <<geometry, Cardinality({m \in DOMAIN st.meshes : m[1] = geometry}) + 1>>

DrainMesh(st, h, mesh) ==
    LET handle == NewMeshHandle(st, mesh.mesh)
        entry == Batch(mesh.layer_id, mesh.tileset_guid, handle)
    IN  [st EXCEPT
           !.meshes = (handle :> mesh.mesh) @@ @,
           !.new_meshes = IF h \in DOMAIN @
                          THEN [@ EXCEPT ![h] = Append(@, entry)]
                          ELSE (h :> <<entry>>) @@ @]

RECURSIVE DrainLoop(_, _, _, _)
DrainLoop(st, h, drained, k) ==
    IF k > Len(drained) THEN st
    ELSE DrainLoop(DrainMesh(st, h, drained[k]), h, drained, k + 1)

\* as DrainMeshes, with an index entry made even when nothing is pending
DrainMeshes_AlwaysIndexed(st, h) ==
    IF st.panic # NoPanic THEN st
    ELSE DrainLoop([st EXCEPT !.maps[h].meshes = <<>>,
                              !.new_meshes = IF h \in DOMAIN @ THEN @
                                             ELSE (h :> <<>>) @@ @],
                   h, st.maps[h].meshes, 1)

\* as DrainMeshes, reading the pending batches without removing them
DrainMeshes_KeepPending(st, h) ==
    IF st.panic # NoPanic THEN st
    ELSE DrainLoop(st, h, st.maps[h].meshes, 1)

DrainMeshes(st, h) ==
    IF st.panic # NoPanic THEN st
    ELSE DrainLoop([st EXCEPT !.maps[h].meshes = <<>>], h, st.maps[h].meshes, 1)

\* the instances of the query that reference the map h
OwnInstances(st, query_order, h) ==
    SelectSeq(query_order, LAMBDA i : st.query[i].map_asset = h)

\* as ProcessChangedMap, with only the caches of the map's own instances
\* extended: the tightened Material Resolver
TightenedChangedMap(st, h, query_order) ==
    IF st.panic # NoPanic THEN st
    ELSE IF st.maps[h] = NoMap
    THEN [st EXCEPT !.panic = Panic("no map", h)]
    ELSE DrainMeshes(
             ResolveMaterials(st, OwnInstances(st, query_order, h), h, 1), h)

\* lines 207-232: one iteration of the loop over changed_maps
ProcessChangedMap(st, h, query_order) ==
    IF st.panic # NoPanic THEN st
    ELSE IF st.maps[h] = NoMap
    THEN [st EXCEPT !.panic = Panic("no map", h)]
    ELSE DrainMeshes(ResolveMaterials(st, query_order, h, 1), h)

RECURSIVE ProcessChangedMaps(_, _, _, _)
ProcessChangedMaps(st, map_order, query_order, k) ==
    IF k > Len(map_order) THEN st
    ELSE ProcessChangedMaps(ProcessChangedMap(st, map_order[k], query_order),
                            map_order, query_order, k + 1)

(***************************************************************************)
(* Lines 234-276: spawn the chunk entities of every instance whose map has *)
(* an entry in new_meshes.                                                 *)
(***************************************************************************)
\* the bag of the elements of a sequence
SeqToBag(seq) ==
    [x \in {seq[k] : k \in DOMAIN seq} |->
       Cardinality({k \in DOMAIN seq : seq[k] = x})]

\* the number of copies a bag holds of the elements of S
RECURSIVE CopiesOf(_, _)
CopiesOf(bag, S) ==
    IF S = {} THEN 0
    ELSE LET x == CHOOSE y \in S : TRUE
         IN  bag[x] + CopiesOf(bag, S \ {x})

\* the chunk entities a bag of spawn commands makes
Chunks(bag) ==
    [c \in {x.chunk : x \in DOMAIN bag} |->
       CopiesOf(bag, {x \in DOMAIN bag : x.chunk = c})]

\* as ChunkComponents, with the transform left at its default
ChunkComponents_DefaultTransform(layer_id, material, mesh, transform) ==
    [layer_id |-> layer_id, material |-> material, mesh |-> mesh,
     transform |-> Vec3(FInt(0), FInt(0), FInt(0))]

ChunkComponents(layer_id, material, mesh, transform) ==
    [layer_id |-> layer_id, material |-> material, mesh |-> mesh,
     transform |-> transform]

\* as SpawnTilesetLayer, matching the meshes on the layer only
SpawnTilesetLayer_LayerOnly(st, i, translation, layer_id, tileset_layer) ==
    LET inst == st.query[i]
        mesh_list == st.new_meshes[inst.map_asset]
        Matches(entry) == entry.layer_id = layer_id
        chunk_mesh_list == SelectSeq(mesh_list, Matches)
    IN  IF st.panic # NoPanic THEN st
        ELSE IF tileset_layer.tileset_guid \notin DOMAIN inst.materials
        THEN [st EXCEPT !.panic = Panic("no material", inst.map_asset)]
        ELSE [st EXCEPT !.tick_spawned = @ (+) SeqToBag(
                [k \in 1..Len(chunk_mesh_list) |->
                   [instance |-> i,
                    chunk |-> ChunkComponents(
                                FInt(layer_id),
                                inst.materials[tileset_layer.tileset_guid],
                                chunk_mesh_list[k].mesh,
                                translation)]])]

SpawnTilesetLayer(st, i, translation, layer_id, tileset_layer) ==
    LET inst == st.query[i]
        mesh_list == st.new_meshes[inst.map_asset]
        Matches(entry) == /\ entry.layer_id = layer_id
                          /\ entry.tileset_guid = tileset_layer.tileset_guid
        chunk_mesh_list == SelectSeq(mesh_list, Matches)
    IN  IF st.panic # NoPanic THEN st
        ELSE IF tileset_layer.tileset_guid \notin DOMAIN inst.materials
        THEN [st EXCEPT !.panic = Panic("no material", inst.map_asset)]
        ELSE [st EXCEPT !.tick_spawned = @ (+) SeqToBag(
                [k \in 1..Len(chunk_mesh_list) |->
                   [instance |-> i,
                    chunk |-> ChunkComponents(
                                FInt(layer_id),
                                inst.materials[tileset_layer.tileset_guid],
                                chunk_mesh_list[k].mesh,
                                translation)]])]

RECURSIVE SpawnTilesetLayers(_, _, _, _, _)
\* as SpawnTilesetLayers, numbering the layers from one
SpawnTilesetLayers_OneBased(st, i, translation, l, t) ==
    LET layer == st.maps[st.query[i].map_asset].layers[l]
    IN  IF t > Len(layer.tileset_layers) THEN st
        ELSE SpawnTilesetLayers(
                 SpawnTilesetLayer(st, i, translation, l,
                                   layer.tileset_layers[t]),
                 i, translation, l, t + 1)

SpawnTilesetLayers(st, i, translation, l, t) ==
    LET layer == st.maps[st.query[i].map_asset].layers[l]
    IN  IF t > Len(layer.tileset_layers) THEN st
        ELSE SpawnTilesetLayers(
                 SpawnTilesetLayer(st, i, translation, l - 1,
                                   layer.tileset_layers[t]),
                 i, translation, l, t + 1)

RECURSIVE SpawnLayers(_, _, _, _)
SpawnLayers(st, i, translation, l) ==
    IF l > Len(st.maps[st.query[i].map_asset].layers) THEN st
    ELSE SpawnLayers(SpawnTilesetLayers(st, i, translation, l, 1),
                     i, translation, l + 1)

\* as SpawnInstanceChunks, centering whatever the instance's flag says
SpawnInstanceChunks_AlwaysCentered(st, i) ==
    LET inst == st.query[i]
        map == st.maps[inst.map_asset]
    IN  IF st.panic # NoPanic THEN st
        ELSE IF inst.map_asset \notin DOMAIN st.new_meshes THEN st
        ELSE IF map = NoMap
        THEN [st EXCEPT !.panic = Panic("no map", inst.map_asset)]
        ELSE IF ~center_supported(map)
        THEN [st EXCEPT !.panic = Panic("orientation", inst.map_asset)]
        ELSE SpawnLayers(st, i, center(map, inst.origin), 1)

SpawnInstanceChunks(st, i) ==
    LET inst == st.query[i]
        map == st.maps[inst.map_asset]
    IN  IF st.panic # NoPanic THEN st
        ELSE IF inst.map_asset \notin DOMAIN st.new_meshes THEN st
        ELSE IF map = NoMap
        THEN [st EXCEPT !.panic = Panic("no map", inst.map_asset)]
        ELSE IF inst.center /\ ~center_supported(map)
        THEN [st EXCEPT !.panic = Panic("orientation", inst.map_asset)]
        ELSE SpawnLayers(st, i,
                         IF inst.center THEN center(map, inst.origin)
                         ELSE inst.origin,
                         1)

RECURSIVE SpawnChunks(_, _, _)
\* as SpawnChunks, for the first instance of the query only
SpawnChunks_FirstInstance(st, query_order, j) ==
    IF j > Len(query_order) THEN st
    ELSE SpawnInstanceChunks(st, query_order[j])

SpawnChunks(st, query_order, j) ==
    IF j > Len(query_order) THEN st
    ELSE SpawnChunks(SpawnInstanceChunks(st, query_order[j]),
                     query_order, j + 1)

(***************************************************************************)
(* The system, run once per tick on the events that arrived since the last *)
(* run.  changed_maps is a HashSet and the query yields the instances in   *)
(* no documented order: both orders are chosen freely.  Spawns go through  *)
(* Commands, which are applied only when the system returns.               *)
(***************************************************************************)
\* as TickStart, with the mesh index of the last run kept
TickStart_KeepIndex ==
    [maps |-> maps, meshes |-> meshes, materials |-> materials,
     query |-> query, new_meshes |-> new_meshes, tick_spawned |-> EmptyBag,
     texture_loads |-> texture_loads, material_adds |-> material_adds,
     panic |-> NoPanic]

TickStart ==
    [maps |-> maps, meshes |-> meshes, materials |-> materials,
     query |-> query, new_meshes |-> <<>>, tick_spawned |-> EmptyBag,
     texture_loads |-> texture_loads, material_adds |-> material_adds,
     panic |-> NoPanic]

TickResult(map_order, query_order) ==
    SpawnChunks(ProcessChangedMaps(TickStart, map_order, query_order, 1),
                query_order, 1)

\* the sets lines 189-204 can make of a batch of events
ChangedMapSets == {ChangedMaps({}, evs, 1) : evs \in EventBatches}

\* as process_loaded_tile_maps, with the chunk entities of earlier runs
\* despawned when a run spawns
process_loaded_tile_maps_Respawning(changed, map_order, query_order) ==
    \E end \in {TickResult(map_order, query_order)} :
        /\ panic = NoPanic
        /\ changed_maps' = changed
        /\ maps' = end.maps
        /\ meshes' = end.meshes
        /\ materials' = end.materials
        /\ query' = end.query
        /\ new_meshes' = end.new_meshes
        /\ tick_spawned' = end.tick_spawned
        /\ texture_loads' = end.texture_loads
        /\ material_adds' = end.material_adds
        /\ panic' = end.panic
        /\ spawned' = IF end.panic = NoPanic /\ end.tick_spawned # EmptyBag
                      THEN Chunks(end.tick_spawned)
                      ELSE spawned
        /\ UNCHANGED <<loads, pure>>

process_loaded_tile_maps(changed, map_order, query_order) ==
    \E end \in {TickResult(map_order, query_order)} :
        /\ panic = NoPanic
        /\ changed_maps' = changed
        /\ maps' = end.maps
        /\ meshes' = end.meshes
        /\ materials' = end.materials
        /\ query' = end.query
        /\ new_meshes' = end.new_meshes
        /\ tick_spawned' = end.tick_spawned
        /\ texture_loads' = end.texture_loads
        /\ material_adds' = end.material_adds
        /\ panic' = end.panic
        /\ spawned' = IF end.panic = NoPanic
                      THEN spawned (+) Chunks(end.tick_spawned)
                      ELSE spawned
        /\ UNCHANGED <<loads, pure>>

\* events are sent for handles that the asset store has held
Tick ==
    \E changed \in ChangedMapSets :
      /\ \A h \in changed : loads[h] > 0
      /\ \E map_order \in Orders(changed) :
           \E query_order \in Orders(1..Len(query)) :
             process_loaded_tile_maps(changed, map_order, query_order)

(***************************************************************************)
(* The rest of the application: the asset store gains, reloads and loses   *)
(* maps, and map instances are spawned.                                    *)
(***************************************************************************)
DropLocals ==
    /\ changed_maps' = {}
    /\ new_meshes' = <<>>
    /\ tick_spawned' = EmptyBag

RECURSIVE TotalLoads(_)
TotalLoads(S) ==
    IF S = {} THEN 0
    ELSE LET h == CHOOSE x \in S : TRUE IN loads[h] + TotalLoads(S \ {h})

LoadMap(h, kind) ==
    /\ panic = NoPanic
    /\ TotalLoads(Handles) < MaxLoads
    /\ loads' = [loads EXCEPT ![h] = @ + 1]
    /\ maps' = [maps EXCEPT ![h] = LoadedMap(kind, <<h, loads[h] + 1>>)]
    /\ DropLocals
    /\ UNCHANGED <<meshes, materials, query, spawned, texture_loads,
                   material_adds, panic, pure>>

RemoveMap(h) ==
    /\ panic = NoPanic
    /\ maps[h] # NoMap
    /\ maps' = [maps EXCEPT ![h] = NoMap]
    /\ DropLocals
    /\ UNCHANGED <<meshes, materials, query, spawned, loads, texture_loads,
                   material_adds, panic, pure>>

TiledMapComponents(map_asset, origin, center_flag) ==
    [map_asset |-> map_asset, materials |-> <<>>, origin |-> origin,
     center |-> center_flag]

SpawnMap(h, origin, center_flag) ==
    /\ panic = NoPanic
    /\ Len(query) < MaxInstances
    /\ query' = Append(query, TiledMapComponents(h, origin, center_flag))
    /\ DropLocals
    /\ UNCHANGED <<maps, meshes, materials, spawned, loads, texture_loads,
                   material_adds, panic, pure>>

WorldInit ==
    /\ maps = [h \in Handles |-> NoMap]
    /\ meshes = <<>>
    /\ materials = <<>>
    /\ query = <<>>
    /\ spawned = EmptyBag
    /\ loads = [h \in Handles |-> 0]
    /\ changed_maps = {}
    /\ new_meshes = <<>>
    /\ tick_spawned = EmptyBag
    /\ texture_loads = [p \in (1..MaxInstances) \X Gids |-> 0]
    /\ material_adds = [p \in (1..MaxInstances) \X Gids |-> 0]
    /\ panic = NoPanic

Init ==
    /\ WorldInit
    /\ arg = <<>>
    /\ stage = "idle"
    /\ result = <<>>

Next ==
    \/ Tick
    \/ \E h \in Handles, kind \in MapKinds : LoadMap(h, kind)
    \/ \E h \in Handles : RemoveMap(h)
    \/ \E h \in Handles, origin \in Origins, c \in BOOLEAN : SpawnMap(h, origin, c)

Spec == Init /\ [][Next]_vars

(***************************************************************************)
(* The change detector of lines 189-204 on its own: one batch of events in *)
(* arrival order, reduced to the set of maps to resynchronise.             *)
(***************************************************************************)
InitDetect ==
    /\ WorldInit
    /\ arg \in EventBatches
    /\ stage = "input"
    /\ result = <<>>

Detect ==
    /\ stage = "input"
    /\ result' = ChangedMaps({}, arg, 1)
    /\ stage' = "detected"
    /\ UNCHANGED <<world, arg>>

NextDetect == Detect

SpecDetect == InitDetect /\ [][NextDetect]_vars

(***************************************************************************)
(* The projections on their own: a grid position is projected to the       *)
(* screen and back.                                                        *)
(***************************************************************************)
\* 1.8 and the largest value below 0.5, as f32
OnePointEight == Canon(0, 15099494, -23)

BelowHalf == Canon(0, 16777215, -25)

Coords == {FInt(0), FInt(1), FInt(3), FInt(7), FInt(-3), Canon(0, 1, -1),
           Canon(0, 5, -1), OnePointEight, BelowHalf, FInt(16777216)}

TileWidths == {FInt(3), FInt(16), FInt(24)}

TileHeights == {FInt(5), FInt(16)}

ProjectionInputs ==
    {[pos |-> Vec2(x, y), tile_width |-> w, tile_height |-> h] :
       x \in Coords, y \in Coords, w \in TileWidths, h \in TileHeights}

InitProject ==
    /\ WorldInit
    /\ arg \in ProjectionInputs
    /\ stage = "input"
    /\ result = <<>>

OrthoRoundTrip ==
    /\ stage = "input"
    /\ result' = unproject_ortho(
                     project_ortho(arg.pos, arg.tile_width, arg.tile_height),
                     arg.tile_width, arg.tile_height)
    /\ stage' = "ortho"
    /\ UNCHANGED <<world, arg>>

IsoRoundTrip ==
    /\ stage = "input"
    /\ result' = unproject_iso(
                     project_iso(arg.pos, arg.tile_width, arg.tile_height),
                     arg.tile_width, arg.tile_height)
    /\ stage' = "iso"
    /\ UNCHANGED <<world, arg>>

NextProject == OrthoRoundTrip \/ IsoRoundTrip

SpecProject == InitProject /\ [][NextProject]_vars

(***************************************************************************)
(* Map::center on its own: a map of some orientation and size and an       *)
(* origin; the call either returns a translation or panics.                *)
(***************************************************************************)
Orientations == {"Orthogonal", "Isometric", "Staggered", "Hexagonal"}

MapWidths == {1, 3, 4}

MapHeights == {2, 3, 6}

TilePixels == {16, 24, 32}

OriginCoords == {<<10, -20, 1>>, <<0, 0, 0>>, <<-7, 300, 5>>}

CenterInputs ==
    {[self |-> [map |-> TiledMap(o, w, h, tw, th, <<>>)], at |-> at] :
       o \in Orientations, w \in MapWidths, h \in MapHeights,
       tw \in TilePixels, th \in TilePixels, at \in OriginCoords}

InitCenter ==
    /\ WorldInit
    /\ arg \in CenterInputs
    /\ stage = "input"
    /\ result = <<>>

CenterMap ==
    /\ stage = "input"
    /\ stage' = "centered"
    /\ IF center_supported(arg.self)
       THEN /\ result' = center(arg.self,
                                Vec3(FInt(arg.at[1]), FInt(arg.at[2]), FInt(arg.at[3])))
            /\ panic' = panic
       ELSE /\ result' = result
            /\ panic' = Panic("orientation", 0)
    /\ UNCHANGED <<maps, meshes, materials, query, spawned, loads,
                   changed_maps, new_meshes, tick_spawned,
                   texture_loads, material_adds, arg>>

NextCenter == CenterMap

SpecCenter == InitCenter /\ [][NextCenter]_vars
(***************************************************************************)
(* Properties of the change detector.                                      *)
(***************************************************************************)
\* the last event of the batch that names h is a Created or a Modified
LastEventIsLive(evs, h) ==
    \E k \in DOMAIN evs :
      /\ evs[k].handle = h
      /\ evs[k].type \in {"Created", "Modified"}
      /\ \A j \in DOMAIN evs : j > k => evs[j].handle # h

\* C1: after a batch of events has been processed in arrival order, a map
\* handle is in the changed-map set exactly when the last event of the batch
\* for that handle is Created or Modified; [Created(A), Removed(A)] gives the
\* empty set, [Removed(A), Created(A)] and [Created(A), Modified(A)] give {A}.
ChangedSetIsLastEvent ==
    stage = "detected" =>
      /\ \A h \in Handles : h \in result <=> LastEventIsLive(arg, h)
      /\ arg = <<Created(1), Removed(1)>> => result = {}
      /\ arg = <<Removed(1), Created(1)>> => result = {1}
      /\ arg = <<Created(1), Modified(1)>> => result = {1}

CreatedThenRemovedDetected ==
    /\ stage = "detected"
    /\ arg = <<Created(1), Removed(1)>>
    /\ result = {}

(***************************************************************************)
(* Properties of the projections.                                          *)
(***************************************************************************)
\* the f32 product, sum, difference or half is the exact one
MulIsExact(a, b) ==
    /\ a.k = "fin"
    /\ b.k = "fin"
    /\ FMul(a, b) = Canon((a.s + b.s) % 2, a.m * b.m, a.e + b.e)

AddIsExact(a, b) ==
    LET sum == FAdd(a, b)
        bv == FSub(sum, a)
        av == FSub(sum, bv)
    IN  /\ sum.k = "fin"
        /\ FEq(FAdd(FSub(a, av), FSub(b, bv)), FZero(0))

HalfIsExact(a) == a.k = "fin" /\ FEq(FMul(FDiv(a, Two), Two), a)

IsInteger(a) == a.k = "fin" /\ a.e >= 0

\* r is the integer nearest to a, the one away from zero when two are
RoundsHalfAway(r, a) ==
    IF a.k # "fin" \/ r.k # "fin" THEN FALSE
    ELSE IF a.e >= 0 THEN FEq(r, a)
    ELSE LET unit == Pow2(-a.e)
             rv == (IF r.s = 1 THEN -1 ELSE 1) * r.m * Pow2(r.e) * unit
             av == (IF a.s = 1 THEN -1 ELSE 1) * a.m
             d == IF rv > av THEN rv - av ELSE av - rv
         IN  /\ r.e >= 0
             /\ 2 * d <= unit
             /\ 2 * d = unit => (IF rv < 0 THEN -rv ELSE rv) > a.m

\* C9 as stated: for all tile dimensions w, h > 0 and all grid positions p,
\* unproject_ortho(project_ortho(p, w, h), w, h) equals p exactly.
OrthoRoundTripIsExact ==
    stage = "ortho" => Vec2Eq(result, arg.pos)

\* C9: for all tile dimensions w, h > 0 and all grid positions p whose
\* products w * p.x and h * p.y are exactly representable in f32,
\* unproject_ortho(project_ortho(p, w, h), w, h) equals p exactly.
OrthoRoundTripOfExactProducts ==
    (/\ stage = "ortho"
     /\ MulIsExact(arg.tile_width, arg.pos[1])
     /\ MulIsExact(arg.tile_height, arg.pos[2]))
      => Vec2Eq(result, arg.pos)

OrthoRoundTripDone ==
    /\ stage = "ortho"
    /\ arg = [pos |-> Vec2(FInt(7), FInt(-3)), tile_width |-> FInt(3),
              tile_height |-> FInt(5)]
    /\ MulIsExact(arg.tile_width, arg.pos[1])
    /\ MulIsExact(arg.tile_height, arg.pos[2])
    /\ result = arg.pos

\* C10 as stated: for all tile dimensions w, h > 0, the isometric round trip
\* of an integer grid position p is p, and that of a non-integer p is the
\* integer grid cell nearest to p.
IsoRoundTripIsNearestCell ==
    stage = "iso" =>
      /\ (IsInteger(arg.pos[1]) /\ IsInteger(arg.pos[2]))
           => Vec2Eq(result, arg.pos)
      /\ RoundsHalfAway(result[1], arg.pos[1])
      /\ RoundsHalfAway(result[2], arg.pos[2])

\* every intermediate value of project_iso(p, w, h), and w/2 and h/2, is
\* computed without rounding
IsoIsExact(pos, w, h) ==
    /\ AddIsExact(pos[1], FNeg(pos[2]))
    /\ AddIsExact(pos[1], pos[2])
    /\ MulIsExact(FSub(pos[1], pos[2]), w)
    /\ MulIsExact(FAdd(pos[1], pos[2]), h)
    /\ HalfIsExact(FMul(FSub(pos[1], pos[2]), w))
    /\ HalfIsExact(FMul(FAdd(pos[1], pos[2]), h))
    /\ HalfIsExact(w)
    /\ HalfIsExact(h)

\* C10: for all tile dimensions w, h > 0 and all grid positions p for which
\* p.x - p.y, p.x + p.y, their products with w and h, the halves of these
\* products and w/2 and h/2 are exactly representable in f32, the isometric
\* round trip of p is (round(p.x), round(p.y)), halves rounded away from
\* zero: p itself when p is integer, the nearest integer grid cell otherwise.
IsoRoundTripOfExactSums ==
    (stage = "iso" /\ IsoIsExact(arg.pos, arg.tile_width, arg.tile_height)) =>
      /\ (IsInteger(arg.pos[1]) /\ IsInteger(arg.pos[2]))
           => Vec2Eq(result, arg.pos)
      /\ RoundsHalfAway(result[1], arg.pos[1])
      /\ RoundsHalfAway(result[2], arg.pos[2])

IsoRoundTripDone ==
    /\ stage = "iso"
    /\ arg = [pos |-> Vec2(Canon(0, 5, -1), FInt(7)), tile_width |-> FInt(3),
              tile_height |-> FInt(5)]
    /\ IsoIsExact(arg.pos, arg.tile_width, arg.tile_height)
    /\ result = Vec2(FInt(3), FInt(7))
(***************************************************************************)
(* Properties of the synchronisation.  A step that leaves changed_maps     *)
(* non-empty is a run of process_loaded_tile_maps.                         *)
(***************************************************************************)
\* the spawn commands the last run issued for instance i
SpawnedFor(i) == {x \in DOMAIN tick_spawned : x.instance = i}

SpawnCount(i) == CopiesOf(tick_spawned, SpawnedFor(i))

InstancesOf(h) == {i \in DOMAIN query : query[i].map_asset = h}

RECURSIVE SpawnCountOfAll(_)
SpawnCountOfAll(S) ==
    IF S = {} THEN 0
    ELSE LET i == CHOOSE j \in S : TRUE
         IN  SpawnCount(i) + SpawnCountOfAll(S \ {i})

IndexOf(index, h) == IF h \in DOMAIN index THEN index[h] ELSE <<>>

RECURSIVE PendingOfAll(_)
PendingOfAll(S) ==
    IF S = {} THEN 0
    ELSE LET h == CHOOSE x \in S : TRUE
         IN  Len(maps[h].meshes) + PendingOfAll(S \ {h})

\* C2: when a run that completes has processed a changed map, the map's
\* pending list is empty and each batch that was pending has one new mesh
\* handle, indexed under the map with the batch's layer and tileset; a map
\* processed with nothing pending gets no upload and no index entry, and no
\* geometry ever has two mesh handles.
DrainOnce ==
    [][(panic' = NoPanic /\ changed_maps' # {}) =>
         /\ \A h \in changed_maps' :
              /\ maps'[h].meshes = <<>>
              /\ Len(IndexOf(new_meshes', h)) = Len(maps[h].meshes)
              /\ Len(maps[h].meshes) = 0 => h \notin DOMAIN new_meshes'
              /\ \A k \in 1..Len(maps[h].meshes) :
                   LET entry == IndexOf(new_meshes', h)[k]
                       batch == maps[h].meshes[k]
                   IN  /\ entry.layer_id = batch.layer_id
                       /\ entry.tileset_guid = batch.tileset_guid
                       /\ entry.mesh \in DOMAIN meshes' \ DOMAIN meshes
                       /\ meshes'[entry.mesh] = batch.mesh
         /\ Cardinality(DOMAIN meshes') =
              Cardinality(DOMAIN meshes) + PendingOfAll(changed_maps')
         /\ \A m1, m2 \in DOMAIN meshes' :
              meshes'[m1] = meshes'[m2] => m1 = m2]_vars

DrainedMapProcessedAgain ==
    /\ panic = NoPanic
    /\ \E h \in changed_maps :
         /\ maps[h] # NoMap
         /\ maps[h].meshes = <<>>
         /\ h \notin DOMAIN new_meshes
         /\ \E m \in DOMAIN meshes : meshes[m][1] = <<h, loads[h]>>

\* C3: for every map instance and tileset id at most one texture load and at
\* most one material creation is ever issued; a cached key keeps its value
\* for ever, and a run issues no texture load for a key already cached.
MaterialCachedOnce ==
    [][/\ \A p \in DOMAIN texture_loads' :
            texture_loads'[p] <= 1 /\ material_adds'[p] <= 1
       /\ \A i \in DOMAIN query : \A g \in DOMAIN query[i].materials :
            /\ g \in DOMAIN query'[i].materials
            /\ query'[i].materials[g] = query[i].materials[g]
            /\ texture_loads'[<<i, g>>] = texture_loads[<<i, g>>]
            /\ material_adds'[<<i, g>>] = material_adds[<<i, g>>]]_vars

\* a run finds the key cached by an earlier run whose chunks are spawned
CachedMaterialResolvedAgain ==
    /\ panic = NoPanic
    /\ tick_spawned = EmptyBag
    /\ \E h \in changed_maps, i \in DOMAIN query :
         /\ maps[h] # NoMap
         /\ \E k \in DOMAIN maps[h].map.tilesets :
              LET g == maps[h].map.tilesets[k].first_gid
              IN  /\ g \in DOMAIN query[i].materials
                  /\ texture_loads[<<i, g>>] = 1
                  /\ material_adds[<<i, g>>] = 1
                  /\ \E c \in DOMAIN spawned :
                       c.material = query[i].materials[g]

\* C4 as stated: in every tick, for every changed map, the number of chunk
\* entities spawned for the map equals the number of entries of the map in
\* the tick's mesh index.
SpawnCountPerMap ==
    panic = NoPanic =>
      \A h \in changed_maps :
        SpawnCountOfAll(InstancesOf(h)) = Len(IndexOf(new_meshes, h))

\* C4: in every tick that runs to completion, for every map instance, the
\* number of chunk entities spawned for the instance equals the number of
\* entries of its map in the tick's mesh index (none when the map has no
\* entry), so a changed map gets as many entities as it has entries times
\* the number of instances that reference it.
SpawnCountPerInstance ==
    panic = NoPanic =>
      /\ \A i \in DOMAIN query :
           SpawnCount(i) = Len(IndexOf(new_meshes, query[i].map_asset))
      /\ \A h \in changed_maps :
           SpawnCountOfAll(InstancesOf(h)) =
             Cardinality(InstancesOf(h)) * Len(IndexOf(new_meshes, h))
      /\ BagCardinality(tick_spawned) = SpawnCountOfAll(DOMAIN query)

TwoInstancesSpawned ==
    /\ panic = NoPanic
    /\ \E h \in DOMAIN new_meshes :
         /\ Cardinality(InstancesOf(h)) = 2
         /\ Len(new_meshes[h]) = 2
         /\ BagCardinality(tick_spawned) = 4

\* C5: the missing-material panic is never reached: when the run spawns for
\* an instance, the instance's cache holds a material for every tileset
\* layer of its map, and every chunk entity spawned carries the material
\* the cache holds for its tileset, a material that is in the store.
MaterialBeforeSpawn ==
    /\ panic.reason # "no material"
    /\ panic = NoPanic =>
         \A i \in DOMAIN query :
           query[i].map_asset \in DOMAIN new_meshes =>
             \A l \in DOMAIN maps[query[i].map_asset].layers :
               \A t \in DOMAIN maps[query[i].map_asset].layers[l].tileset_layers :
                 maps[query[i].map_asset].layers[l].tileset_layers[t].tileset_guid
                   \in DOMAIN query[i].materials
    /\ \A x \in DOMAIN tick_spawned :
         /\ x.chunk.material \in DOMAIN materials
         /\ \E e \in DOMAIN new_meshes[query[x.instance].map_asset] :
              LET entry == new_meshes[query[x.instance].map_asset][e]
              IN  /\ entry.mesh = x.chunk.mesh
                  /\ entry.tileset_guid \in DOMAIN query[x.instance].materials
                  /\ query[x.instance].materials[entry.tileset_guid] =
                       x.chunk.material

\* two instances of a map with two tilesets both get their chunks
TwoTilesetsSpawnedTwice ==
    /\ panic = NoPanic
    /\ \E h \in DOMAIN new_meshes :
         /\ Len(maps[h].map.tilesets) = 2
         /\ Cardinality(InstancesOf(h)) = 2
         /\ \A i \in InstancesOf(h) : SpawnCount(i) = 2

\* C6: when the run fails on one changed map (texture not resolvable,
\* orientation not supported by center, material missing), every other
\* changed map that is in the store has been drained and every instance of
\* such a map that has index entries has its chunk entities spawned.
FailureIsIsolated ==
    panic.reason \in {"texture", "orientation", "no material"} =>
      \A h \in changed_maps :
        (h # panic.handle /\ maps[h] # NoMap) =>
          /\ maps[h].meshes = <<>>
          /\ \A i \in InstancesOf(h) :
               /\ SpawnCount(i) = Len(IndexOf(new_meshes, h))
               /\ \A x \in SpawnedFor(i) : x.chunk \in DOMAIN spawned

\* C7: a changed map with no asset in the store does not end the run with a
\* panic.
AbsentAssetIsAbsorbed ==
    \A h \in changed_maps :
      maps[h] = NoMap => ~(panic.reason = "no map" /\ panic.handle = h)

\* C8: a map with one layer, one tileset layer of tileset 7 and two pending
\* batches of (layer 0, tileset 7), with one uncentred instance whose cache
\* is empty: one run on that map spawns two chunk entities, both of layer 0,
\* both with the one material made from the one texture load for tileset 7,
\* both at the instance's origin.
ScenarioMap(h) == maps[h] = LoadedMap("single", <<h, loads[h]>>)

EndToEnd ==
    [][\A h \in Handles : \A i \in DOMAIN query :
         (/\ panic = NoPanic
          /\ changed_maps' = {h}
          /\ ScenarioMap(h)
          /\ InstancesOf(h) = {i}
          /\ query[i].materials = <<>>
          /\ ~query[i].center)
           => /\ panic' = NoPanic
              /\ BagCardinality(tick_spawned') = 2
              /\ BagCardinality(spawned') = BagCardinality(spawned) + 2
              /\ texture_loads'[<<i, 7>>] = texture_loads[<<i, 7>>] + 1
              /\ material_adds'[<<i, 7>>] = material_adds[<<i, 7>>] + 1
              /\ \A x \in DOMAIN tick_spawned' :
                   /\ x.instance = i
                   /\ x.chunk \in DOMAIN spawned'
                   /\ x.chunk.layer_id = FInt(0)
                   /\ x.chunk.material = query'[i].materials[7]
                   /\ materials'[x.chunk.material] = "a/tiles.png"
                   /\ x.chunk.transform = query[i].origin]_vars

ScenarioSpawned ==
    /\ panic = NoPanic
    /\ changed_maps = {1}
    /\ 1 \in DOMAIN new_meshes
    /\ maps[1].map = LoadedMap("single", <<1, 1>>).map
    /\ Len(query) = 1
    /\ query[1].map_asset = 1
    /\ ~query[1].center
    /\ texture_loads[<<1, 7>>] = 1
    /\ BagCardinality(tick_spawned) = 2
    /\ BagCardinality(spawned) = 2
    /\ \A c \in DOMAIN spawned :
         /\ c.layer_id = FInt(0)
         /\ c.material = query[1].materials[7]
         /\ c.transform = query[1].origin

\* C11: for an Orthogonal or an Isometric map, center returns the origin
\* minus four times the orientation's projection of (width/2, height/2) in x
\* and in y, and the origin's z as it is: with w, h the map's size and tw, th
\* the tile's, that is (x - 2*w*tw, y + 2*h*th, z) for Orthogonal and
\* (x - (w-h)*tw, y + (w+h)*th, z) for Isometric.  For any other
\* orientation the call panics and returns nothing.
CenterIsOriginMinusProjection ==
    stage = "centered" =>
      LET m == arg.self.map
          at == arg.at
      IN  CASE m.orientation = "Orthogonal" ->
                 /\ panic = NoPanic
                 /\ Len(result) = 3
                 /\ FEq(result[1], FInt(at[1] - 2 * m.width * m.tile_width))
                 /\ FEq(result[2], FInt(at[2] + 2 * m.height * m.tile_height))
                 /\ result[3] = FInt(at[3])
            [] m.orientation = "Isometric" ->
                 /\ panic = NoPanic
                 /\ Len(result) = 3
                 /\ FEq(result[1], FInt(at[1] - (m.width - m.height) * m.tile_width))
                 /\ FEq(result[2], FInt(at[2] + (m.width + m.height) * m.tile_height))
                 /\ result[3] = FInt(at[3])
            [] OTHER ->
                 /\ panic = Panic("orientation", 0)
                 /\ result = <<>>

CenteredIsometricMap ==
    /\ stage = "centered"
    /\ arg.self.map.orientation = "Isometric"
    /\ arg.self.map.width # arg.self.map.height
    /\ arg.self.map.tile_width # arg.self.map.tile_height
    /\ arg.at[1] # 0
    /\ Len(result) = 3
    /\ ~FEq(result[1], FInt(arg.at[1]))

\* C12: every chunk entity a run spawns for a map instance is placed at
\* center(map, origin) when the instance's centering flag is set and at the
\* instance's origin when it is not, so all the entities of one instance in
\* one run share one translation; when the run completes these entities are
\* in the world.
PlacementTransform ==
    /\ \A x \in DOMAIN tick_spawned :
         LET inst == query[x.instance]
         IN  /\ maps[inst.map_asset] # NoMap
             /\ x.chunk.transform =
                  IF inst.center
                  THEN center(maps[inst.map_asset], inst.origin)
                  ELSE inst.origin
    /\ \A x, y \in DOMAIN tick_spawned :
         x.instance = y.instance => x.chunk.transform = y.chunk.transform
    /\ panic = NoPanic => \A x \in DOMAIN tick_spawned : x.chunk \in DOMAIN spawned

\* a centred and an uncentred instance of the 3 by 5 isometric map of 32 by
\* 16 tiles at (10, -20, 1): one is placed at (74, 108, 1), one at the origin
CentredAndUncentredSpawned ==
    /\ panic = NoPanic
    /\ \E x, y \in DOMAIN tick_spawned :
         /\ query[x.instance].center
         /\ ~query[y.instance].center
         /\ query[x.instance].map_asset = query[y.instance].map_asset
         /\ maps[query[x.instance].map_asset].map.orientation = "Isometric"
         /\ x.chunk.transform = Vec3(FInt(74), FInt(108), FInt(1))
         /\ y.chunk.transform = Vec3(FInt(10), FInt(-20), FInt(1))
         /\ x.chunk \in DOMAIN spawned
         /\ y.chunk \in DOMAIN spawned

\* the spawn commands of the run for instance i that carry the mesh handle m
SpawnedWithMesh(i, m) == {x \in SpawnedFor(i) : x.chunk.mesh = m}

\* C13: in a run that completes, every entry (layer_id, tileset_guid, mesh)
\* of the mesh index of a map yields, for every instance of the map, exactly
\* one chunk entity: its layer_id is the entry's, its material is the one the
\* instance's cache holds for the entry's tileset_guid, and the map has a
\* layer of that index with a tileset layer of that tileset; no entity of
\* the instance carries the entry's mesh with another layer or material.
EntityAttribution ==
    panic = NoPanic =>
      \A i \in DOMAIN query :
        \A k \in DOMAIN IndexOf(new_meshes, query[i].map_asset) :
          LET entry == new_meshes[query[i].map_asset][k]
              layers == maps[query[i].map_asset].layers
          IN  /\ CopiesOf(tick_spawned, SpawnedWithMesh(i, entry.mesh)) = 1
              /\ \A x \in SpawnedWithMesh(i, entry.mesh) :
                   /\ x.chunk.layer_id = FInt(entry.layer_id)
                   /\ entry.tileset_guid \in DOMAIN query[i].materials
                   /\ x.chunk.material = query[i].materials[entry.tileset_guid]
              /\ entry.layer_id + 1 \in DOMAIN layers
              /\ Cardinality({t \in DOMAIN layers[entry.layer_id + 1].tileset_layers :
                                layers[entry.layer_id + 1].tileset_layers[t].tileset_guid
                                  = entry.tileset_guid}) = 1

\* an instance gets two entities of different layers and different materials
AttributedToTwoPairs ==
    /\ panic = NoPanic
    /\ \E i \in DOMAIN query :
         /\ Len(IndexOf(new_meshes, query[i].map_asset)) = 2
         /\ \E x, y \in SpawnedFor(i) :
              /\ x.chunk.layer_id = FInt(0)
              /\ y.chunk.layer_id = FInt(1)
              /\ x.chunk.material # y.chunk.material
              /\ x.chunk.mesh # y.chunk.mesh

(***************************************************************************)
(* A run with the tightened Material Resolver: as lines 207-232, with the  *)
(* cache of an instance extended only by the tilesets of its own map.      *)
(***************************************************************************)
RECURSIVE TightenedChangedMaps(_, _, _, _)
TightenedChangedMaps(st, map_order, query_order, k) ==
    IF k > Len(map_order) THEN st
    ELSE TightenedChangedMaps(TightenedChangedMap(st, map_order[k], query_order),
                              map_order, query_order, k + 1)

TightenedResult(map_order, query_order) ==
    SpawnChunks(TightenedChangedMaps(TickStart, map_order, query_order, 1),
                query_order, 1)

\* what is seen of the chunk entities a run spawns: for each, its instance,
\* mesh, layer, transform and the texture path its material was built from
Seen(commands, store) ==
    {[instance |-> x.instance, mesh |-> x.chunk.mesh,
      layer_id |-> x.chunk.layer_id, transform |-> x.chunk.transform,
      texture |-> store[x.chunk.material], copies |-> commands[x]] :
       x \in DOMAIN commands}

\* C14: a run that starts with every material cache empty and completes
\* spawns the chunk entities (same instance, mesh, layer, transform and
\* texture path of the material) that the tightened resolver spawns from
\* the same state on the same changed maps.
TighteningEquivalence ==
    [][(/\ panic = NoPanic
        /\ panic' = NoPanic
        /\ changed_maps' # {}
        /\ \A i \in DOMAIN query : query[i].materials = <<>>)
         => \E map_order \in Orders(changed_maps') :
              \E query_order \in Orders(DOMAIN query) :
                \E tight \in {TightenedResult(map_order, query_order)} :
                  /\ tight.panic = NoPanic
                  /\ Seen(tight.tick_spawned, tight.materials)
                       = Seen(tick_spawned', materials')]_vars

\* the ids of the tilesets of the maps of S
RECURSIVE TilesetIds(_)
TilesetIds(S) ==
    IF S = {} THEN {}
    ELSE LET h == CHOOSE x \in S : TRUE
         IN  {maps[h].map.tilesets[k].first_gid : k \in DOMAIN maps[h].map.tilesets}
               \cup TilesetIds(S \ {h})

\* C15: when the Material Resolver step of a run on a non-empty changed set
\* has ended, the keys of every instance's cache are the keys it had before
\* the run and the ids of all the tilesets of all the changed maps, whether
\* the instance references the map or not, and every key has a material in
\* the store.
ConservativeResolution ==
    [][(/\ panic = NoPanic
        /\ changed_maps' # {}
        /\ panic'.reason \in {"none", "orientation", "no material"})
         => \A i \in DOMAIN query :
              /\ DOMAIN query'[i].materials =
                   DOMAIN query[i].materials \cup TilesetIds(changed_maps')
              /\ \A g \in DOMAIN query'[i].materials :
                   query'[i].materials[g] \in DOMAIN materials']_vars

\* an instance holds a material for a tileset of a changed map it does not
\* reference, under an id its own map has no tileset of
ForeignTilesetCached ==
    /\ panic = NoPanic
    /\ \E i \in DOMAIN query : \E h \in changed_maps :
         /\ query[i].map_asset # h
         /\ maps[query[i].map_asset] # NoMap
         /\ \E g \in TilesetIds({h}) \ TilesetIds({query[i].map_asset}) :
              /\ g \in DOMAIN query[i].materials
              /\ texture_loads[<<i, g>>] = 1

\* C16: no step of the application, whatever events and runs it holds,
\* removes or changes a chunk entity: every entity of the world is still
\* there after the step with its layer, mesh, material and transform, and
\* its mesh and material handles still name what they named.
AppendOnlySpawn ==
    [][/\ spawned \sqsubseteq spawned'
       /\ \A c \in DOMAIN spawned :
            /\ c.mesh \in DOMAIN meshes'
            /\ meshes'[c.mesh] = meshes[c.mesh]
            /\ c.material \in DOMAIN materials'
            /\ materials'[c.material] = materials[c.material]]_vars

\* the chunk entities of a map's first load stand next to those of its
\* reload
ChunksOfTwoLoads ==
    /\ panic = NoPanic
    /\ \E h \in Handles : \E c1, c2 \in DOMAIN spawned :
         /\ loads[h] = 2
         /\ c1.mesh[1][1] = <<h, 1>>
         /\ c2.mesh[1][1] = <<h, 2>>

\* C17: the mesh index of a run holds nothing of an earlier run: it has
\* entries only for changed maps that had batches pending when the run
\* began, every entry's mesh handle was added to the store by this run, and
\* every chunk entity the run spawns belongs to an instance of such a map
\* and carries a mesh handle of that map's entries.
TickScopedIndex ==
    [][/\ \A h \in DOMAIN new_meshes' :
            /\ h \in changed_maps'
            /\ Len(maps[h].meshes) > 0
            /\ \A k \in DOMAIN new_meshes'[h] :
                 new_meshes'[h][k].mesh \in DOMAIN meshes' \ DOMAIN meshes
       /\ \A x \in DOMAIN tick_spawned' :
            /\ query[x.instance].map_asset \in DOMAIN new_meshes'
            /\ x.chunk.mesh \in DOMAIN meshes' \ DOMAIN meshes
            /\ \E k \in DOMAIN new_meshes'[query[x.instance].map_asset] :
                 new_meshes'[query[x.instance].map_asset][k].mesh = x.chunk.mesh]_vars

\* a run spawns for one instance and nothing for another whose map is not
\* changed and whose chunk entities an earlier run has spawned
EarlierIndexNotReused ==
    /\ panic = NoPanic
    /\ \E i, j \in DOMAIN query :
         /\ query[i].map_asset # query[j].map_asset
         /\ SpawnCount(i) > 0
         /\ SpawnCount(j) = 0
         /\ query[j].map_asset \notin changed_maps
         /\ \E c \in DOMAIN spawned : c.mesh[1][1][1] = query[j].map_asset

\* the texture path behind every key of every instance's cache
CachedTextures(q, store) ==
    [i \in DOMAIN q |->
       [g \in DOMAIN q[i].materials |-> store[q[i].materials[g]]]]

\* the pending batches of every map of the store
PendingLists(store) ==
    [h \in Handles |-> IF store[h] = NoMap THEN <<>> ELSE store[h].meshes]

\* C18: a run that completes ends in the state every other iteration order
\* of the changed maps and of the map instances ends in: the same texture
\* path behind every cached material, the same pending lists and the same
\* chunk entities.
OrderIndependence ==
    [][(/\ panic = NoPanic
        /\ panic' = NoPanic
        /\ changed_maps' # {})
         => \A map_order \in Orders(changed_maps') :
              \A query_order \in Orders(DOMAIN query) :
                \E other \in {TickResult(map_order, query_order)} :
                  /\ other.panic = NoPanic
                  /\ CachedTextures(other.query, other.materials)
                       = CachedTextures(query', materials')
                  /\ PendingLists(other.maps) = PendingLists(maps')
                  /\ Seen(other.tick_spawned, other.materials)
                       = Seen(tick_spawned', materials')]_vars

\* the mesh handles of the entries of a mesh list
MeshesOf(mesh_list) == {mesh_list[k].mesh : k \in DOMAIN mesh_list}

\* C19: in a run that completes, a changed map with n index entries and k
\* instances gets k * n chunk entities, n for each instance; the entities
\* of every instance carry the same n mesh handles, those of the index, one
\* per pending batch, and each entity's material is a material of its own
\* instance's cache, made for that instance and shared with no other.
PerInstanceFanOut ==
    panic = NoPanic =>
      \A h \in DOMAIN new_meshes :
        /\ Cardinality(MeshesOf(new_meshes[h])) = Len(new_meshes[h])
        /\ BagCardinality(
             [x \in {y \in DOMAIN tick_spawned : query[y.instance].map_asset = h}
                |-> tick_spawned[x]])
             = Cardinality(InstancesOf(h)) * Len(new_meshes[h])
        /\ \A i \in InstancesOf(h) :
             /\ Cardinality(SpawnedFor(i)) = Len(new_meshes[h])
             /\ \A x \in SpawnedFor(i) : tick_spawned[x] = 1
             /\ {x.chunk.mesh : x \in SpawnedFor(i)} = MeshesOf(new_meshes[h])
             /\ \A x \in SpawnedFor(i) :
                  /\ \E g \in DOMAIN query[i].materials :
                       query[i].materials[g] = x.chunk.material
                  /\ \A j \in DOMAIN query : \A g \in DOMAIN query[j].materials :
                       query[j].materials[g] = x.chunk.material => j = i

\* two instances of one map: four entities on two mesh handles, the
\* materials of one instance's entities not those of the other's
TwoInstancesShareMeshes ==
    /\ panic = NoPanic
    /\ \E h \in DOMAIN new_meshes :
         /\ InstancesOf(h) = {1, 2}
         /\ Len(new_meshes[h]) = 2
         /\ {x.chunk.mesh : x \in SpawnedFor(1)} = {x.chunk.mesh : x \in SpawnedFor(2)}
         /\ Cardinality({x.chunk.mesh : x \in DOMAIN tick_spawned}) = 2
         /\ {x.chunk.material : x \in SpawnedFor(1)}
               \cap {x.chunk.material : x \in SpawnedFor(2)} = {}
         /\ SpawnedFor(1) # {}
         /\ SpawnedFor(2) # {}

\* C20: a run on a changed map whose pending list is empty makes no index
\* entry for the map and spawns no chunk entity for any of its instances;
\* when no changed map has anything pending the run adds no mesh and no
\* chunk entity at all, whatever it adds to the material caches.
EmptyResyncSpawnsNothing ==
    [][panic = NoPanic =>
         /\ \A h \in changed_maps' :
              (maps[h] # NoMap /\ maps[h].meshes = <<>>) =>
                /\ h \notin DOMAIN new_meshes'
                /\ \A x \in DOMAIN tick_spawned' :
                     query[x.instance].map_asset # h
         /\ (\A h \in changed_maps' : maps[h] # NoMap /\ maps[h].meshes = <<>>) =>
              /\ new_meshes' = <<>>
              /\ tick_spawned' = EmptyBag
              /\ meshes' = meshes
              /\ changed_maps' # {} => spawned' = spawned]_vars

\* a run on a map drained by an earlier run: the map's chunk entities are
\* those of the earlier run, and an instance spawned in between has its
\* cache filled and no chunk entity
EmptyResyncFilledCache ==
    /\ panic = NoPanic
    /\ tick_spawned = EmptyBag
    /\ \E h \in changed_maps :
         /\ maps[h] # NoMap
         /\ maps[h].meshes = <<>>
         /\ h \notin DOMAIN new_meshes
         /\ \E c \in DOMAIN spawned : c.mesh[1][1] = <<h, loads[h]>>
         /\ \E i \in InstancesOf(h) :
              /\ query[i].materials # <<>>
              /\ \A c \in DOMAIN spawned : c.material[1] # i
====
